---- MODULE Spec2Model ----
(***************************************************************************)
(* lokilogger: a Logger that writes every entry to a local zap sink and    *)
(* ships one flattened line per call to Loki over HTTP (src/logger.go).    *)
(*                                                                         *)
(* Two specifications:                                                     *)
(*   SpecFmt  the renderer (fieldsToMap) and the line formatter of sendLog *)
(*            applied to bounded field sequences;                          *)
(*   Spec     two goroutines, each making one call of Info, Error, Debug   *)
(*            or Warn on the same Logger, in any interleaving, with Go     *)
(*            slices and their backing arrays modelled, so that            *)
(*            the append in Logger.Error acts on the memory the caller     *)
(*            handed in.                                                   *)
(*                                                                         *)
(* Strings are TLA+ strings; \o is Go's string concatenation.  Of the      *)
(* zapcore field types the model carries String, Int64, Int8, Uint8, Bool, *)
(* Error, Stringer, Reflect, ObjectMarshaler, Namespace, Skip and the zero *)
(* type Unknown; floats, durations, instants, binary and complex kinds are *)
(* not modelled.                                                           *)
(***************************************************************************)
EXTENDS Integers, Sequences, FiniteSets, TLC

VARIABLES
    logger,     \* the Logger struct built by New: baseURL, service, sink tags
    mem,        \* backing arrays of []zap.Field slices: array id -> cells
    callerFields, \* slice header of the field sequence the callers own
    clock,      \* wall clock read by time.Now()
    stdout,     \* whether writes to the sink's output path succeed
    pc,         \* per goroutine: position inside its logging call
    call,       \* per goroutine: entry point and arguments of its call
    entry,      \* per goroutine: the LogEntry handed to sendLog
    sink,       \* per goroutine: records its call wrote to the local sink
    line,       \* per goroutine: messageBuilder.String()
    posted,     \* per goroutine: requests its call handed to httpClient.Do
    req,        \* per goroutine: the request built by http.NewRequest
    resp,       \* per goroutine: outcome of httpClient.Do
    ret,        \* per goroutine: error returned by the call
    probe       \* SpecFmt: input and output of the renderer and formatter

vars == <<logger, mem, callerFields, clock, stdout, pc, call, entry, sink, line,
          req, posted, resp, ret, probe>>

(***************************************************************************)
(* Bounds                                                                  *)
(***************************************************************************)
MaxFields == 2      \* SpecFmt: longest field sequence
MaxCap == 2         \* Spec: largest capacity of the callers' slice
StartTime == 9      \* Spec: UnixNano of the first time.Now()

(***************************************************************************)
(* Values                                                                  *)
(***************************************************************************)
Procs == {"g1", "g2"}
Msgs == {"X", "Y"}

\* The interface{} payload of a zap.Field: dynamic type, text, number.
NilIface == [dyn |-> "nil", text |-> "", num |-> 0]
ErrValue(s) == [dyn |-> "error", text |-> s, num |-> 0]
StringerValue(s) == [dyn |-> "stringer", text |-> s, num |-> 0]
MapValue(k, n) == [dyn |-> "map", text |-> k, num |-> n]

\* error values a caller passes to Logger.Error; NilIface is the nil error
Errs == {NilIface, ErrValue("e1"), ErrValue("e2")}

Field(k, t, i, s, x) ==
    [Key |-> k, Type |-> t, Integer |-> i, String |-> s, Interface |-> x]

ZeroField == Field("", "Unknown", 0, "", NilIface)
ZapString(k, v) == Field(k, "String", 0, v, NilIface)
ZapInt64(k, n) == Field(k, "Int64", n, "", NilIface)
ZapInt8(k, n) == Field(k, "Int8", n, "", NilIface)
ZapUint8(k, n) == Field(k, "Uint8", n, "", NilIface)
ZapBool(k, b) == Field(k, "Bool", IF b THEN 1 ELSE 0, "", NilIface)
ZapStringer(k, x) == Field(k, "Stringer", 0, "", x)
ZapReflect(k, x) == Field(k, "Reflect", 0, "", x)
ZapObject(k, x) == Field(k, "ObjectMarshaler", 0, "", x)
ZapNamespace(k) == Field(k, "Namespace", 0, "", NilIface)
ZapSkip == Field("", "Skip", 0, "", NilIface)

\* zap.Error(err): NamedError("error", err), which is Skip() for a nil err
ZapError(err) ==
    IF err = NilIface THEN ZapSkip
    ELSE Field("error", "Error", 0, "", err)

(***************************************************************************)
(* fmt.Sprintf verbs                                                       *)
(***************************************************************************)
Digit(d) ==
    CASE d = 0 -> "0" [] d = 1 -> "1" [] d = 2 -> "2" [] d = 3 -> "3"
      [] d = 4 -> "4" [] d = 5 -> "5" [] d = 6 -> "6" [] d = 7 -> "7"
      [] d = 8 -> "8" [] d = 9 -> "9"

RECURSIVE NatToStr(_)
NatToStr(n) == IF n < 10 THEN Digit(n) ELSE NatToStr(n \div 10) \o Digit(n % 10)

\* %d
FmtD(n) == IF n < 0 THEN "-" \o NatToStr(-n) ELSE NatToStr(n)

\* int8(x), uint8(x): conversion of an int64 to 8 bits
ToUint8(x) == x % 256
ToInt8(x) == IF x % 256 >= 128 THEN (x % 256) - 256 ELSE x % 256

\* %v of a bool
FmtBool(b) == IF b THEN "true" ELSE "false"

\* %v of an interface{} value
FmtV(x) ==
    CASE x.dyn = "nil" -> "<nil>"
      [] x.dyn = "map" -> "map[" \o x.text \o ":" \o FmtD(x.num) \o "]"
      [] x.dyn = "error" -> x.text
      [] x.dyn = "stringer" -> x.text

(***************************************************************************)
(* fieldsToMap                                                             *)
(***************************************************************************)
\* One pass of the switch: what the field stores under its key.
\*   set   result[field.Key] = val
\*   none  no case assigns (Namespace, Skip, a type without a case)
\*   panic a failed type assertion on field.Interface
Render(field) ==
    CASE field.Type = "String" -> [op |-> "set", val |-> field.String]
      [] field.Type = "Int64" -> [op |-> "set", val |-> FmtD(field.Integer)]
      [] field.Type = "Int8" -> [op |-> "set", val |-> FmtD(ToInt8(field.Integer))]
      [] field.Type = "Uint8" -> [op |-> "set", val |-> FmtD(ToUint8(field.Integer))]
      [] field.Type = "Bool" -> [op |-> "set", val |-> FmtBool(field.Integer = 1)]
      [] field.Type = "Error" ->
            IF field.Interface.dyn = "error"
            THEN [op |-> "set", val |-> field.Interface.text]
            ELSE [op |-> "panic", val |-> ""]
      [] field.Type = "Stringer" ->
            IF field.Interface.dyn = "stringer"
            THEN [op |-> "set", val |-> field.Interface.text]
            ELSE [op |-> "panic", val |-> ""]
      [] field.Type \in {"Reflect", "ObjectMarshaler"} ->
            [op |-> "set", val |-> FmtV(field.Interface)]
      [] OTHER -> [op |-> "none", val |-> ""]

EmptyMap == [k \in {} |-> ""]
MapPut(m, k, v) == [x \in DOMAIN m \cup {k} |-> IF x = k THEN v ELSE m[x]]
\* m[k] of a Go map: the zero value "" for a missing key
MapGet(m, k) == IF k \in DOMAIN m THEN m[k] ELSE ""

\* The for loop from index i on, result being the map built so far.
RECURSIVE fieldsToMapFrom(_, _, _)
fieldsToMapFrom(fields, i, result) ==
    IF i > Len(fields) THEN [panic |-> FALSE, map |-> result]
    ELSE LET r == Render(fields[i]) IN
         CASE r.op = "panic" -> [panic |-> TRUE, map |-> EmptyMap]
           [] r.op = "set" ->
                fieldsToMapFrom(fields, i + 1, MapPut(result, fields[i].Key, r.val))
           [] OTHER -> fieldsToMapFrom(fields, i + 1, result)

fieldsToMap(fields) == fieldsToMapFrom(fields, 1, EmptyMap)

(***************************************************************************)
(* sendLog: the flattened line                                             *)
(***************************************************************************)
\* The range loop over entry.Fields from index i on; buf is messageBuilder.
RECURSIVE formatFrom(_, _, _)
formatFrom(fields, i, buf) ==
    IF i > Len(fields) THEN [panic |-> FALSE, line |-> buf]
    ELSE LET field == fields[i]
             m == fieldsToMap(<<field>>)
             sep == IF i > 1 THEN " " ELSE ""
         IN  IF m.panic THEN [panic |-> TRUE, line |-> ""]
             ELSE formatFrom(fields, i + 1,
                      buf \o sep \o field.Key \o "=" \o MapGet(m.map, field.Key))

\* a formatter that renders the whole sequence once and looks each key up
formatLineSharedMap(msg, fields) ==
    LET m == fieldsToMap(fields)
        RECURSIVE go(_, _)
        go(i, buf) ==
            IF i > Len(fields) THEN [panic |-> FALSE, line |-> buf]
            ELSE go(i + 1, buf \o (IF i > 1 THEN " " ELSE "") \o fields[i].Key
                             \o "=" \o MapGet(m.map, fields[i].Key))
    IN  IF m.panic THEN [panic |-> TRUE, line |-> ""]
        ELSE IF Len(fields) > 0 THEN go(1, msg \o " | ")
        ELSE [panic |-> FALSE, line |-> msg]

formatLine(msg, fields) ==
    IF Len(fields) > 0 THEN formatFrom(fields, 1, msg \o " | ")
    ELSE [panic |-> FALSE, line |-> msg]

(***************************************************************************)
(* Go slices of zap.Field                                                  *)
(*                                                                         *)
(* A slice is a header [arr, len] over a backing array mem[arr]; its       *)
(* capacity is Len(mem[arr]).  A cell holds the Field last      *)
(* stored (val), the goroutines whose store to it is in progress (w), and  *)
(* whether stores to it have overlapped (over).  A store of a Field is     *)
(* several machine words, so a load that is concurrent with stores may     *)
(* take each component from a different one of them.                       *)
(***************************************************************************)
ArrIds == {"caller"} \cup Procs

Cell(f) == [val |-> f, w |-> {}, over |-> FALSE]

\* component-wise mixtures of the Fields in S
Mix(S) ==
    {Field(a.Key, b.Type, c.Integer, d.String, e.Interface) :
        a \in S, b \in S, c \in S, d \in S, e \in S}

\* the Field goroutine p is storing: the last argument of its append
Storing(p) == ZapError(call[p].err)

\* what a load of the cell can return
Load(cell) == Mix({cell.val} \cup {Storing(q) : q \in cell.w})

\* what reading the elements of slice s can return
ReadSlice(s) ==
    LET U == UNION {Load(mem[s.arr][i]) : i \in 1..s.len}
    IN  {fs \in [1..s.len -> U] :
            \A i \in 1..s.len : fs[i] \in Load(mem[s.arr][i])}

BeginStore(cell, p) ==
    [cell EXCEPT !.w = @ \cup {p}, !.over = @ \/ cell.w # {}]

\* the values the cell can hold once p's store has completed
Stored(cell, p) ==
    IF cell.w \ {p} # {}
    THEN Mix({Storing(q) : q \in cell.w})
    ELSE IF cell.over THEN Mix({cell.val, Storing(p)})
    ELSE {Storing(p)}

\* the variadic parameter: the caller's slice itself for f(s...), a fresh
\* array of exactly the arguments for f(a, b)
ArgLists == {<<>>, <<ZapInt64("n", 42)>>}
ArgChoices == {[spread |-> TRUE, list |-> <<>>]}
                \cup {[spread |-> FALSE, list |-> l] : l \in ArgLists}

ArgSlice(p, a) ==
    IF a.spread THEN callerFields ELSE [arr |-> p, len |-> Len(a.list)]

ArgArray(a) == [i \in 1..Len(a.list) |-> Cell(a.list[i])]

(***************************************************************************)
(* New                                                                     *)
(***************************************************************************)
BaseURLs == {"http://loki", "://loki"}

New(config) ==
    [baseURL |-> config.BaseURL,
     service |-> config.Service,
     tags |-> [service |-> config.Service, environment |-> config.Environment]]

Configs ==
    {[BaseURL |-> u, Environment |-> "prod", Service |-> "svc"] : u \in BaseURLs}

NoCall == [method |-> "none", msg |-> "", err |-> NilIface,
           args |-> [spread |-> FALSE, list |-> <<>>]]
NoEntry == [Timestamp |-> 0, Message |-> "", Fields |-> [arr |-> "caller", len |-> 0]]
NoResp == [err |-> "", status |-> 0]
NoReq == [method |-> "", url |-> "", contentType |-> "", body |-> [streams |-> <<>>]]

InitCalls ==
    /\ clock = StartTime
    /\ pc = [p \in Procs |-> "idle"]
    /\ call = [p \in Procs |-> NoCall]
    /\ entry = [p \in Procs |-> NoEntry]
    /\ sink = [p \in Procs |-> <<>>]
    /\ line = [p \in Procs |-> ""]
    /\ req = [p \in Procs |-> NoReq]
    /\ posted = [p \in Procs |-> <<>>]
    /\ resp = [p \in Procs |-> NoResp]
    /\ ret = [p \in Procs |-> NilIface]

NoProbe == [phase |-> "off", msg |-> "", fields |-> <<>>,
            out |-> [panic |-> FALSE, map |-> EmptyMap, line |-> ""]]

\* The callers hold one field sequence of length 1 in an array of capacity
\* 1..MaxCap; the cells past its length are zero Fields.
Init ==
    /\ \E config \in Configs : logger = New(config)
    /\ \E c \in 1..MaxCap :
          mem = [a \in ArrIds |->
                    IF a = "caller"
                    THEN [i \in 1..c |->
                            IF i = 1 THEN Cell(ZapString("k", "v")) ELSE Cell(ZeroField)]
                    ELSE <<>>]
    /\ callerFields = [arr |-> "caller", len |-> 1]
    /\ stdout \in BOOLEAN
    /\ InitCalls
    /\ probe = NoProbe

(***************************************************************************)
(* Info, Debug, Warn, Error                                                *)
(***************************************************************************)
Crashed == \E p \in Procs : pc[p] = "panic"

CanCall(p) == ~Crashed /\ pc[p] = "idle"

\* The body shared by Info, Debug and Warn: build the LogEntry from the
\* arguments, with the variadic slice as it is, and go to sendLog.
LogCall(p, method) ==
    /\ CanCall(p)
    /\ \E msg \in Msgs, a \in ArgChoices :
          /\ call' = [call EXCEPT ![p] =
                         [method |-> method, msg |-> msg, err |-> NilIface, args |-> a]]
          /\ mem' = [mem EXCEPT ![p] = ArgArray(a)]
          /\ entry' = [entry EXCEPT ![p] =
                          [Timestamp |-> clock, Message |-> msg,
                           Fields |-> ArgSlice(p, a)]]
    /\ clock' = clock + 1
    /\ pc' = [pc EXCEPT ![p] = "sendLog"]
    /\ UNCHANGED <<logger, callerFields, stdout, sink, line, req, posted, resp,
                   ret, probe>>

Info(p) == LogCall(p, "Info")

Debug(p) == LogCall(p, "Debug")

Warn(p) == LogCall(p, "Warn")

\* Error up to the append of zap.Error(err).  With spare capacity in the
\* slice it was handed, append stores into that array (the store is begun
\* here and completed by ErrorAppend); without, append copies the elements
\* into a new array of its own and the entry is built at once.
Error(p) ==
    /\ CanCall(p)
    /\ \E msg \in Msgs, err \in Errs, a \in ArgChoices :
          LET fields == ArgSlice(p, a)
              base == IF a.spread THEN mem[fields.arr] ELSE ArgArray(a)
              c == [method |-> "Error", msg |-> msg, err |-> err, args |-> a]
          IN  /\ call' = [call EXCEPT ![p] = c]
              /\ IF fields.len < Len(base)
                 THEN /\ mem' = [mem EXCEPT ![p] = <<>>,
                                   ![fields.arr][fields.len + 1] = BeginStore(@, p)]
                      /\ entry' = [entry EXCEPT ![p] = NoEntry]
                      /\ clock' = clock
                      /\ pc' = [pc EXCEPT ![p] = "append"]
                 ELSE /\ mem' = [mem EXCEPT ![p] =
                                   [i \in 1..(fields.len + 1) |->
                                       IF i <= fields.len THEN Cell(base[i].val)
                                       ELSE Cell(ZapError(err))]]
                      /\ entry' = [entry EXCEPT ![p] =
                                      [Timestamp |-> clock, Message |-> msg,
                                       Fields |-> [arr |-> p, len |-> fields.len + 1]]]
                      /\ clock' = clock + 1
                      /\ pc' = [pc EXCEPT ![p] = "sendLog"]
    /\ UNCHANGED <<logger, callerFields, stdout, sink, line, req, posted, resp,
                   ret, probe>>

\* The in-place append completes and Error builds its LogEntry.
ErrorAppend(p) ==
    /\ ~Crashed
    /\ pc[p] = "append"
    /\ LET fields == ArgSlice(p, call[p].args)
           i == fields.len + 1
           cell == mem[fields.arr][i]
       IN  /\ \E v \in Stored(cell, p) :
                 mem' = [mem EXCEPT ![fields.arr][i] =
                            [val |-> v, w |-> cell.w \ {p},
                             over |-> cell.over /\ cell.w \ {p} # {}]]
           /\ entry' = [entry EXCEPT ![p] =
                           [Timestamp |-> clock, Message |-> call[p].msg,
                            Fields |-> [arr |-> fields.arr, len |-> i]]]
    /\ clock' = clock + 1
    /\ pc' = [pc EXCEPT ![p] = "sendLog"]
    /\ UNCHANGED <<logger, callerFields, stdout, call, sink, line, req, posted, resp, ret, probe>>

(***************************************************************************)
(* sendLog                                                                 *)
(***************************************************************************)
\* a record of the local sink: the zap call that wrote it, its level, its
\* message, the fields of logger.With and the tags New attached
SinkRecord(site, level, msg, fields) ==
    [site |-> site, level |-> level, msg |-> msg, fields |-> fields,
     tags |-> logger.tags]

\* the sink after a write: a write that fails leaves nothing
Written(records, rec) == IF stdout THEN Append(records, rec) ELSE records

\* logger.With encodes each field as it is added; encoding an Error-type
\* field asserts that its Interface holds an error
WithPanics(fields) ==
    \E i \in 1..Len(fields) :
        fields[i].Type = "Error" /\ fields[i].Interface.dyn # "error"

\* logger := l.logger.With(entry.Fields...); logger.Info(entry.Message)
sendLogLocal(p) ==
    /\ ~Crashed
    /\ pc[p] = "sendLog"
    /\ \E fields \in ReadSlice(entry[p].Fields) :
          IF WithPanics(fields)
          THEN /\ pc' = [pc EXCEPT ![p] = "panic"]
               /\ sink' = sink
          ELSE /\ pc' = [pc EXCEPT ![p] = "format"]
               /\ sink' = [sink EXCEPT ![p] = Written(@,
                              SinkRecord("entry", "info", entry[p].Message, fields))]
    /\ UNCHANGED <<logger, mem, callerFields, clock, stdout, call, entry, line, req,
                   posted, resp, ret, probe>>

\* a payload that labels the stream with the environment as well
LokiPayloadWithEnv(l, e, text) ==
    [Streams |-> <<[Stream |-> [source |-> l.service,
                                environment |-> l.tags.environment],
                    Values |-> <<<<FmtD(e.Timestamp), text>>>>]>>]

\* the LokiPayload literal
LokiPayload(l, e, text) ==
    [Streams |-> <<[Stream |-> [source |-> l.service],
                    Values |-> <<<<FmtD(e.Timestamp), text>>>>]>>]

\* json.Marshal of a LokiPayload: objects keyed by the json tags; maps and
\* slices of strings always encode
jsonMarshal(payload) ==
    [err |-> "",
     data |-> [streams |->
                 [i \in 1..Len(payload.Streams) |->
                     [stream |-> payload.Streams[i].Stream,
                      values |-> payload.Streams[i].Values]]]]

\* http.NewRequest parses the URL: a URL without a scheme is refused
NewRequestErr(url) ==
    IF url = "http://loki/loki/api/v1/push" THEN ""
    ELSE "missing protocol scheme"

\* The line, the payload, json.Marshal and http.NewRequest.
sendLogFormat(p) ==
    /\ ~Crashed
    /\ pc[p] = "format"
    /\ \E fields \in ReadSlice(entry[p].Fields) :
          LET r == formatLine(entry[p].Message, fields)
              m == jsonMarshal(LokiPayload(logger, entry[p], r.line))
              url == logger.baseURL \o "/loki/api/v1/push"
              fail(what, text, cause) ==
                  /\ sink' = [sink EXCEPT ![p] = Written(@,
                                 SinkRecord(what, "error", what,
                                     <<ZapError(ErrValue(cause))>>))]
                  /\ ret' = [ret EXCEPT ![p] = ErrValue(text \o ": " \o cause)]
                  /\ pc' = [pc EXCEPT ![p] = "done"]
                  /\ req' = req
          IN  IF r.panic
              THEN /\ pc' = [pc EXCEPT ![p] = "panic"]
                   /\ UNCHANGED <<sink, line, req, ret>>
              ELSE /\ line' = [line EXCEPT ![p] = r.line]
                   /\ IF m.err # ""
                      THEN fail("Failed to marshal payload",
                                "failed to marshal payload", m.err)
                      ELSE IF NewRequestErr(url) # ""
                      THEN fail("Failed to create request",
                                "failed to create request", NewRequestErr(url))
                      ELSE /\ req' = [req EXCEPT ![p] =
                                        [method |-> "POST", url |-> url,
                                         contentType |-> "application/json",
                                         body |-> m.data]]
                           /\ pc' = [pc EXCEPT ![p] = "do"]
                           /\ UNCHANGED <<sink, ret>>
    /\ UNCHANGED <<logger, mem, callerFields, clock, stdout, call, entry, posted, resp, probe>>

\* what httpClient.Do can come back with: a transport error (the 10 s
\* timeout among them) or a response with a status
Statuses == {200, 204, 500}
Outcomes == {[err |-> "timeout", status |-> 0]}
              \cup {[err |-> "", status |-> s] : s \in Statuses}

\* a status check that takes 200 alone
AcceptedOnlyOK(status) == status = 200

\* resp.StatusCode is StatusNoContent or StatusOK
Accepted(status) == status = 204 \/ status = 200

\* a sendLog that sends the request once more after a transport error
sendLogDoRetry(p) ==
    /\ ~Crashed
    /\ pc[p] = "do"
    /\ posted' = [posted EXCEPT ![p] = Append(@, req[p])]
    /\ \E out \in Outcomes :
          /\ resp' = [resp EXCEPT ![p] = out]
          /\ IF out.err # "" /\ Len(posted[p]) < 2
             THEN /\ pc' = pc
                  /\ UNCHANGED <<sink, ret>>
             ELSE /\ pc' = [pc EXCEPT ![p] = "done"]
                  /\ sink' = sink
                  /\ ret' = [ret EXCEPT ![p] =
                       IF out.err # "" THEN ErrValue("failed to send request: " \o out.err)
                       ELSE IF ~Accepted(out.status)
                       THEN ErrValue("unexpected status code: " \o FmtD(out.status))
                       ELSE NilIface]
    /\ UNCHANGED <<logger, mem, callerFields, clock, stdout, call, entry, line, req, probe>>

\* httpClient.Do and the status check, to the return.  The diagnostic
\* record of a rejected status is modelled with its status_code field.
sendLogDo(p) ==
    /\ ~Crashed
    /\ pc[p] = "do"
    /\ posted' = [posted EXCEPT ![p] = Append(@, req[p])]
    /\ \E out \in Outcomes :
          LET fail(what, text, more) ==
                  /\ sink' = [sink EXCEPT ![p] = Written(@,
                                 SinkRecord(what, "error", what, more))]
                  /\ ret' = [ret EXCEPT ![p] = ErrValue(text)]
          IN  /\ resp' = [resp EXCEPT ![p] = out]
              /\ IF out.err # ""
                 THEN fail("Failed to send request",
                           "failed to send request: " \o out.err,
                           <<ZapError(ErrValue(out.err))>>)
                 ELSE IF ~Accepted(out.status)
                 THEN fail("Unexpected status code",
                           "unexpected status code: " \o FmtD(out.status),
                           <<ZapInt64("status_code", out.status)>>)
                 ELSE UNCHANGED <<sink, ret>>
    /\ pc' = [pc EXCEPT ![p] = "done"]
    /\ UNCHANGED <<logger, mem, callerFields, clock, stdout, call, entry, line, req, probe>>

Next ==
    \E p \in Procs :
        \/ Info(p)
        \/ Debug(p)
        \/ Warn(p)
        \/ Error(p)
        \/ ErrorAppend(p)
        \/ sendLogLocal(p)
        \/ sendLogFormat(p)
        \/ sendLogDo(p)

Spec == Init /\ [][Next]_vars

(***************************************************************************)
(* SpecFmt: fieldsToMap and the formatter on bounded inputs                *)
(***************************************************************************)
FieldUniverse ==
    {ZapString("k", "v"), ZapString("k", "w"), ZapInt64("n", 42),
     ZapInt8("i", -7), ZapUint8("u", 200), ZapBool("ok", TRUE),
     ZapError(ErrValue("test error")),
     ZapStringer("s", StringerValue("test stringer")), ZapStringer("s", NilIface),
     ZapReflect("r", MapValue("a", 1)), ZapReflect("r", NilIface),
     ZapObject("o", NilIface), ZapNamespace("ns"), ZapSkip,
     Field("z", "Unknown", 0, "", NilIface)}

SeqsUpTo(S, n) == UNION {[1..k -> S] : k \in 0..n}

InitFmt ==
    /\ logger = New([BaseURL |-> "http://loki", Environment |-> "prod",
                     Service |-> "svc"])
    /\ mem = [a \in ArrIds |-> <<>>]
    /\ callerFields = [arr |-> "caller", len |-> 0]
    /\ stdout = TRUE
    /\ InitCalls
    /\ \E msg \in Msgs, fields \in SeqsUpTo(FieldUniverse, MaxFields) :
          probe = [NoProbe EXCEPT !.phase = "input", !.msg = msg, !.fields = fields]

UnchangedCalls ==
    UNCHANGED <<logger, mem, callerFields, clock, stdout, pc, call, entry, sink,
                line, req, posted, resp, ret>>

\* result := fieldsToMap(fields)
ApplyFieldsToMap ==
    /\ probe.phase = "input"
    /\ LET r == fieldsToMap(probe.fields)
       IN  probe' = [probe EXCEPT !.phase = "mapped", !.out.panic = r.panic,
                                  !.out.map = r.map]
    /\ UnchangedCalls

\* the message builder of sendLog run on (msg, fields)
ApplyFormatLine ==
    /\ probe.phase = "input"
    /\ LET r == formatLine(probe.msg, probe.fields)
       IN  probe' = [probe EXCEPT !.phase = "formatted", !.out.panic = r.panic,
                                  !.out.line = r.line]
    /\ UnchangedCalls

NextFmt == ApplyFieldsToMap \/ ApplyFormatLine

SpecFmt == InitFmt /\ [][NextFmt]_vars

(***************************************************************************)
(* The flattened line as the specification words it                        *)
(***************************************************************************)
RenderableKinds ==
    {"String", "Int64", "Int8", "Uint8", "Bool", "Error", "Stringer",
     "Reflect", "ObjectMarshaler"}
SkipKinds == {"Namespace", "Skip"}
ObjectKinds == {"Error", "Stringer", "Reflect", "ObjectMarshaler"}

HasRendering(f) == f.Type \in RenderableKinds /\ Render(f).op = "set"
NotSkipKind(f) == f.Type \notin SkipKinds

Item(f) == f.Key \o "=" \o Render(f).val

RECURSIVE JoinItems(_)
JoinItems(fs) ==
    IF Len(fs) = 1 THEN Item(fs[1])
    ELSE JoinItems(SubSeq(fs, 1, Len(fs) - 1)) \o " " \o Item(fs[Len(fs)])

ExpectedLine(msg, fs) ==
    IF Len(fs) = 0 THEN msg ELSE msg \o " | " \o JoinItems(fs)

(***************************************************************************)
(* Claims on the renderer and the formatter (SpecFmt)                      *)
(***************************************************************************)

\* C2: namespace-kind and skip-kind fields add nothing to the flattened
\* line: the line of a field sequence is the line of the same sequence
\* with its namespace and skip fields removed.
C2_SkipFieldsAddNothing ==
    (/\ probe.phase = "formatted"
     /\ \A i \in 1..Len(probe.fields) :
           HasRendering(probe.fields[i]) \/ ~NotSkipKind(probe.fields[i]))
    => (/\ ~probe.out.panic
        /\ probe.out.line =
              ExpectedLine(probe.msg, SelectSeq(probe.fields, NotSkipKind)))

\* C3: for renderable fields the flattened line is the message alone when
\* there are none, and otherwise the message, " | ", and one key=value item
\* per field in the original order, separated by single spaces, fields with
\* equal keys each keeping their own value.
C3_FlattenedLine ==
    (/\ probe.phase = "formatted"
     /\ \A i \in 1..Len(probe.fields) : HasRendering(probe.fields[i]))
    => (/\ ~probe.out.panic
        /\ probe.out.line = ExpectedLine(probe.msg, probe.fields)
        /\ (probe.msg = "X" /\ probe.fields = <<>>) => probe.out.line = "X"
        /\ (probe.msg = "X"
              /\ probe.fields = <<ZapString("k", "v"), ZapInt64("n", 42)>>)
             => probe.out.line = "X | k=v n=42"
        /\ (probe.msg = "X"
              /\ probe.fields = <<ZapString("k", "v"), ZapString("k", "w")>>)
             => probe.out.line = "X | k=v k=w")

\* C3 witness: a line was built from two renderable fields that share a key
\* and differ in value.
C3_Witness ==
    /\ probe.phase = "formatted"
    /\ Len(probe.fields) = 2
    /\ \A i \in 1..2 : HasRendering(probe.fields[i])
    /\ probe.fields[1].Key = probe.fields[2].Key
    /\ Render(probe.fields[1]).val # Render(probe.fields[2]).val
    /\ ~probe.out.panic

\* C5: rendering a field of an object kind whose payload is nil never
\* crashes: fieldsToMap and the formatter return normally on it.
C5_NilPayloadNeverCrashes ==
    (/\ probe.phase \in {"mapped", "formatted"}
     /\ \A i \in 1..Len(probe.fields) :
           HasRendering(probe.fields[i])
           \/ (probe.fields[i].Type \in ObjectKinds
                 /\ probe.fields[i].Interface = NilIface))
    => ~probe.out.panic

\* C9: fieldsToMap returns, for every field sequence, a map whose keys are
\* exactly the keys of the fields of a supported kind, each mapped to the
\* rendering of a field with that key; namespace, skip and unknown kinds
\* give no entry.
C9_FieldsToMapTotal ==
    probe.phase = "mapped"
    => (/\ ~probe.out.panic
        /\ DOMAIN probe.out.map =
              {probe.fields[i].Key :
                  i \in {j \in 1..Len(probe.fields) :
                            probe.fields[j].Type \in RenderableKinds}}
        /\ \A k \in DOMAIN probe.out.map :
              \E i \in 1..Len(probe.fields) :
                  /\ probe.fields[i].Key = k
                  /\ HasRendering(probe.fields[i])
                  /\ probe.out.map[k] = Render(probe.fields[i]).val)

(***************************************************************************)
(* Claims on the logging calls (Spec)                                      *)
(***************************************************************************)
\* the field sequence the caller passed to goroutine p's call
ArgFields(a) ==
    IF a.spread THEN [i \in 1..callerFields.len |-> mem[callerFields.arr][i].val]
    ELSE a.list

\* the fields goroutine p's call is to log: its arguments, and for Error
\* the field made of its own error value
OwnFields(p) ==
    ArgFields(call[p].args)
        \o (IF call[p].method = "Error" THEN <<ZapError(call[p].err)>> ELSE <<>>)

RequestBuilt == logger.baseURL = "http://loki"

\* C1: a call that has returned returned an error exactly when request
\* construction failed, the HTTP call failed, or the status was neither 200
\* nor 204, whether or not the local sink could be written.
C1_ErrorIffDeliveryFailed ==
    \A p \in Procs :
        pc[p] = "done" =>
            /\ (ret[p] # NilIface)
                 <=> (\/ ~RequestBuilt
                      \/ resp[p].err # ""
                      \/ resp[p].status \notin {200, 204})
            /\ (posted[p] # <<>> /\ resp[p].err = "" /\ resp[p].status = 500)
                 => ret[p] = ErrValue("unexpected status code: 500")
            /\ (posted[p] # <<>> /\ resp[p].err = "" /\ resp[p].status = 204)
                 => ret[p] = NilIface

\* C1 witness: with the sink unwritable, one call got 204 and returned nil
\* and another got 500 and returned an error.
C1_Witness ==
    /\ ~stdout
    /\ \E p, q \in Procs :
          /\ pc[p] = "done" /\ resp[p].status = 204 /\ ret[p] = NilIface
          /\ pc[q] = "done" /\ resp[q].status = 500 /\ ret[q] # NilIface

NilErrorFallbacks == {"", "<nil>", "nil", "null"}

\* C4: Error with a nil err does not crash, ships a line whose last item is
\* a field with key "error" holding a fallback text, after the caller's
\* fields, and makes its one POST.
C4_NilErrorShipsErrorField ==
    \A p \in Procs :
        (call[p].method = "Error" /\ call[p].err = NilIface) =>
            /\ pc[p] # "panic"
            /\ pc[p] \in {"do", "done"} =>
                 \E fb \in NilErrorFallbacks :
                     line[p] = ExpectedLine(call[p].msg,
                                   ArgFields(call[p].args)
                                       \o <<ZapString("error", fb)>>)
            /\ (pc[p] = "done" /\ RequestBuilt) => Len(posted[p]) = 1

\* C6: in every interleaving each call ships the line of its own message,
\* its own fields and its own error value, and the callers' field sequence
\* stays as it was.
C6_CallsShipOwnData ==
    /\ \A p \in Procs :
          pc[p] \in {"do", "done"} =>
              line[p] = formatLine(call[p].msg, OwnFields(p)).line
    /\ ArgFields([spread |-> TRUE, list |-> <<>>]) = <<ZapString("k", "v")>>

\* C7: a call hands at most one request to the HTTP client, a POST to
\* <base_url>/loki/api/v1/push, and has returned once it has done so; a
\* call that returned with its request built made exactly one.
C7_AtMostOnePost ==
    \A p \in Procs :
        /\ Len(posted[p]) <= 1
        /\ posted[p] # <<>> => pc[p] = "done"
        /\ \A i \in 1..Len(posted[p]) :
              /\ posted[p][i].method = "POST"
              /\ posted[p][i].url = logger.baseURL \o "/loki/api/v1/push"
        /\ (pc[p] = "done" /\ RequestBuilt) => Len(posted[p]) = 1
        /\ (pc[p] = "done" /\ ~RequestBuilt) => Len(posted[p]) = 0

\* C7 witness: a call whose POST was rejected with 500 has returned after
\* that one POST.
C7_Witness ==
    \E p \in Procs :
        pc[p] = "done" /\ resp[p].status = 500 /\ Len(posted[p]) = 1

\* decimal text of the timestamps the calls can take
Decimal(n) ==
    CASE n = 9 -> "9" [] n = 10 -> "10" [] n = 11 -> "11" [] n = 12 -> "12"
      [] OTHER -> "?"

\* C8: the body of every POST holds one stream, labelled with source = the
\* service name and nothing else, and one sample: the call's timestamp in
\* decimal and the line the formatter built for the call.
C8_Envelope ==
    \A p \in Procs :
        \A i \in 1..Len(posted[p]) :
            LET streams == posted[p][i].body.streams IN
            /\ Len(streams) = 1
            /\ DOMAIN streams[1].stream = {"source"}
            /\ streams[1].stream.source = logger.service
            /\ Len(streams[1].values) = 1
            /\ streams[1].values[1] = <<Decimal(entry[p].Timestamp), line[p]>>

\* C8 witness: a request was posted whose line carries fields and whose
\* timestamp has two digits.
C8_Witness ==
    \E p \in Procs :
        /\ Len(posted[p]) = 1
        /\ entry[p].Fields.len > 0
        /\ entry[p].Timestamp >= 10

LevelOf(method) ==
    CASE method = "Info" -> "info" [] method = "Error" -> "error"
      [] method = "Debug" -> "debug" [] method = "Warn" -> "warn"

\* C10: the record a call writes to the local sink for its entry has the
\* level of the entry point called and the call's message.
C10_SinkRecordLevel ==
    \A p \in Procs :
        \A i \in 1..Len(sink[p]) :
            sink[p][i].site = "entry" =>
                /\ sink[p][i].level = LevelOf(call[p].method)
                /\ sink[p][i].msg = call[p].msg

====
